---- MODULE Spec2Model ----
(***************************************************************************)
(* Model of esphome_smart_updater.py: the device-update orchestration of   *)
(* the ESPHome Selective Updates add-on.  One process run is main(); runs  *)
(* follow one another and share the progress file and the state file.      *)
(***************************************************************************)
EXTENDS Integers, Sequences, FiniteSets, TLC

VARIABLES
    \* ---- resources that outlive a run
    configDir,          \* /config/esphome: does it exist, which *.yaml it holds
    progressFile,       \* PROGRESS_FILE
    stateFile,          \* STATE_PATH
    \* ---- the running process (main and what it calls)
    pc,                 \* position of the main thread
    opts,               \* options used by the processing loop
    state,              \* state dict of main
    progress,           \* progress dict of main
    devices,            \* result of discover_devices()
    total,
    filtered_devices,
    skip_reasons,
    done, failed, skipped,
    idx,
    status,             \* value returned by update_device
    bin_path,           \* value returned by compile_in_esphome_container
    ticks,              \* remaining iterations of the delay loop
    op,                 \* the docker operation _run is executing
    rc, out,            \* what _run returns
    CURRENT_CHILD,
    child,              \* the process started by Popen
    STOP_REQUESTED,
    exitCode,
    \* ---- observations (never read by the program)
    endKind,            \* how the run ended
    runStartFile,       \* progress file when the process started
    prior,              \* progress handed to filter_devices
    outcomes,           \* name -> status returned by update_device in this run
    sigDev, sigPhase,   \* where the first stop signal of the run landed
    cutShort,           \* a child of the current device was killed or not started
    compiled, uploaded, \* names compile / upload was invoked for in this run
    fired,              \* one-shot triggers that fired in this run
    streakFires,        \* fires of each trigger since its option was last seen unset
    lastSaved,          \* last progress content whose write completed
    offline,            \* names whose probe reported them offline in this run
    probed,             \* names ping_host was called for in this run
    target,             \* the upload target update_device resolved last
    ping,               \* the invocations of the last ping_host call, where recorded
    fin,                \* inputs and stages of filter_devices, where recorded
    summary

vars == << configDir, progressFile, stateFile, pc, opts, state, progress, devices,
           total, filtered_devices, skip_reasons, done, failed, skipped, idx, status,
           bin_path, ticks, op, rc, out, CURRENT_CHILD, child, STOP_REQUESTED,
           exitCode, endKind, runStartFile, prior, outcomes, sigDev, sigPhase,
           cutShort, compiled, uploaded, fired, streakFires, lastSaved, offline, probed,
           target, ping, fin, summary >>

(***************************************************************************)
(* Values                                                                  *)
(***************************************************************************)
None == "None"

\* bound: the largest delay_between_updates an options file holds
MaxDelay == 1
\* bound: the largest max_devices_per_run an options file holds
MaxCap == 1

\* exit statuses of the entry point
ExitSuccess == 0
ExitPreflight == 1
ExitFatal == 1
ExitKeyboardInterrupt == 130
ExitStopShortCircuit == 143
NoExit == 0 - 1
KilledRc == -15

\* every name a progress list can hold, in the order sorted() gives
NameOrder == << "a", "b", "c", "d" >>
Names == { NameOrder[i] : i \in 1..Len(NameOrder) }

ToSet(s) == { s[i] : i \in 1..Len(s) }

\* sorted(list(S))
SortedList(S) == SelectSeq(NameOrder, LAMBDA n : n \in S)

Dict(d, f, s) == [kind |-> "dict", done |-> d, failed |-> f, skipped |-> s]
EmptyProgress == Dict(<< >>, << >>, << >>)
FileAbsent == [kind |-> "absent", done |-> << >>, failed |-> << >>, skipped |-> << >>]
FileUnparsable == [kind |-> "unparsable", done |-> << >>, failed |-> << >>, skipped |-> << >>]
FileList == [kind |-> "list", done |-> << >>, failed |-> << >>, skipped |-> << >>]

DefaultState == [last_version |-> None,
                 clear_log_now_consumed |-> FALSE,
                 clear_progress_now_consumed |-> FALSE]
StateAbsent == [kind |-> "absent", dict |-> DefaultState]
StateDict(s) == [kind |-> "dict", dict |-> s]

AddonVersion == "unknown"

\* the *.yaml files of a populated configuration directory
YamlA == [stem |-> "a", manual_ip |-> "10.0.0.5", node |-> "node-a"]
YamlB == [stem |-> "b", manual_ip |-> None, node |-> "node-b"]
YamlC == [stem |-> "c", manual_ip |-> "10.0.0.7", node |-> "node-c"]
YamlD == [stem |-> "d", manual_ip |-> None, node |-> "node-d"]
YamlSecrets == [stem |-> "secrets", manual_ip |-> None, node |-> None]

ConfigDirs == { [exists |-> FALSE, yamls |-> << >>],
                [exists |-> TRUE, yamls |-> << >>],
                [exists |-> TRUE, yamls |-> << YamlSecrets >>],
                [exists |-> TRUE, yamls |-> << YamlA, YamlB, YamlSecrets >>] }

(***************************************************************************)
(* JSON utilities                                                          *)
(***************************************************************************)
\* load_json: the default when the file is missing or does not parse,
\* otherwise whatever JSON value the file holds
load_json(file, default) ==
    IF file.kind \in {"absent", "unparsable"} THEN default ELSE file

load_progress(file) == load_json(file, EmptyProgress)

load_state(file) ==
    IF file.kind \in {"absent", "unparsable"} THEN DefaultState ELSE file.dict

(***************************************************************************)
(* Network utilities                                                       *)
(***************************************************************************)
\* what one `ping` invocation can do
PingAttempts == {"rc0", "rc1", "FileNotFoundError", "TimeoutExpired", "Exception"}

\* ping_host without the return on a missing utility or a timeout
ping_host_fail_closed(a1, a2) == a1 = "rc0" \/ (a1 # "rc0" /\ a2 = "rc0")

\* ping_host: a1, a2 are the outcomes of the two invocation variants
ping_host(a1, a2) ==
    IF a1 = "rc0" THEN TRUE
    ELSE IF a1 \in {"FileNotFoundError", "TimeoutExpired"} THEN TRUE
    ELSE IF a2 = "rc0" THEN TRUE
    ELSE IF a2 \in {"FileNotFoundError", "TimeoutExpired"} THEN TRUE
    ELSE FALSE

\* the invocations ping_host makes: the second variant is run only when the
\* first one exited non-zero or raised something else than the two
\* exceptions that end the call
ping_tried(a1, a2) ==
    IF a1 \in {"rc0", "FileNotFoundError", "TimeoutExpired"} THEN << a1 >>
    ELSE << a1, a2 >>

(***************************************************************************)
(* Device discovery                                                        *)
(***************************************************************************)
DeviceOf(y) == [name |-> y.stem, node |-> y.node, config |-> y.stem,
                address |-> y.manual_ip]

RECURSIVE DiscoverFrom(_)
DiscoverFrom(ys) ==
    IF ys = << >> THEN << >>
    ELSE IF Head(ys).stem = "secrets" THEN DiscoverFrom(Tail(ys))
    ELSE << DeviceOf(Head(ys)) >> \o DiscoverFrom(Tail(ys))

\* discover_devices: the yaml files are held in sorted order
discover_devices(dir) == IF ~dir.exists THEN << >> ELSE DiscoverFrom(dir.yamls)

\* verify_esphome_config_dir
verify_esphome_config_dir(dir) == dir.exists /\ Len(dir.yamls) > 0

(***************************************************************************)
(* Version tracking                                                        *)
(***************************************************************************)
VersionPairs == { << None, None >>, << None, "1.3.0" >>,
                  << "1.2.0", "1.2.0" >>, << "1.2.0", "1.3.0" >> }

\* no .dashboard.json, or one that does not parse
DashboardAbsent == [kind |-> "absent", entries |-> [n \in {} |-> << None, None >>]]

\* the .dashboard.json files with an entry for each name of S
DashboardsOver(S, pairs) ==
    { DashboardAbsent } \cup { [kind |-> "dict", entries |-> e] : e \in [S -> pairs] }

\* the .dashboard.json a run can find
Dashboards == DashboardsOver({"a", "b"}, VersionPairs)

read_dashboard_versions(dashboard, device_name) ==
    IF dashboard.kind # "dict" THEN << None, None >>
    ELSE IF device_name \notin DOMAIN dashboard.entries THEN << None, None >>
    ELSE dashboard.entries[device_name]

\* the staleness decision that takes unknown versions for up to date
needs_update_known_only(device_name, prog, dashboard) ==
    IF device_name \in ToSet(prog.done)
    THEN << FALSE, << "already updated this run" >> >>
    ELSE LET v == read_dashboard_versions(dashboard, device_name)
         IN  IF v[1] # None /\ v[2] # None /\ v[1] # v[2]
             THEN << TRUE, << "deployed=", v[1], ", current=", v[2] >> >>
             ELSE << FALSE, << "already up-to-date (", v[1], ")" >> >>

needs_update(device_name, prog, dashboard) ==
    IF device_name \in ToSet(prog.done)
    THEN << FALSE, << "already updated this run" >> >>
    ELSE LET v == read_dashboard_versions(dashboard, device_name)
             deployed == v[1]
             current == v[2]
         IN  IF deployed = None \/ current = None
             THEN << TRUE, << "version information unavailable" >> >>
             ELSE IF deployed # current
             THEN << TRUE, << "deployed=", deployed, ", current=", current >> >>
             ELSE << FALSE, << "already up-to-date (", deployed, ")" >> >>

(***************************************************************************)
(* Device filtering                                                        *)
(***************************************************************************)
\* allow-lists and start offsets an options file can hold
Whitelists == { << >>, << "b", "a" >>, << "b" >>, << "zz" >> }
StartFroms == { "", "b", "zz" }

\* the allow-list step that follows the order of the allow-list
RECURSIVE WhitelistOrder(_, _)
WhitelistOrder(devs, whitelist) ==
    IF whitelist = << >> THEN << >>
    ELSE SelectSeq(devs, LAMBDA d : d.name = Head(whitelist))
             \o WhitelistOrder(devs, Tail(whitelist))

ApplyWhitelistInListOrder(devs, whitelist) ==
    IF whitelist # << >> THEN WhitelistOrder(devs, whitelist) ELSE devs

ApplyWhitelist(devs, whitelist) ==
    IF whitelist # << >>
    THEN SelectSeq(devs, LAMBDA d : d.name \in ToSet(whitelist))
    ELSE devs

\* the start offset that drops the named device as well
ApplyStartFromAfter(devs, start_from) ==
    IF start_from = "" THEN devs
    ELSE LET hits == { i \in 1..Len(devs) : devs[i].name = start_from }
         IN  IF hits = {} THEN devs
             ELSE LET first == CHOOSE i \in hits : \A j \in hits : i <= j
                  IN  SubSeq(devs, first + 1, Len(devs))

ApplyStartFrom(devs, start_from) ==
    IF start_from = "" THEN devs
    ELSE LET hits == { i \in 1..Len(devs) : devs[i].name = start_from }
         IN  IF hits = {} THEN devs
             ELSE LET first == CHOOSE i \in hits : \A j \in hits : i <= j
                  IN  SubSeq(devs, first, Len(devs))

\* line 731: the warning that start_from_device was not found
StartFromWarns(devs, start_from) ==
    start_from # "" /\ \A i \in 1..Len(devs) : devs[i].name # start_from

\* the loop of filter_devices reads progress.get(...): a progress value that
\* is a JSON list raises AttributeError as soon as the loop has a device
FilterRaises(devs, whitelist, start_from, prog) ==
    /\ prog.kind # "dict"
    /\ ApplyStartFrom(ApplyWhitelist(devs, whitelist), start_from) # << >>

\* the filter that leaves out every name the progress record holds
ExcludedAnyProgress(d, prog, dashboard) ==
    \/ d.name \in ToSet(prog.done) \cup ToSet(prog.failed) \cup ToSet(prog.skipped)
    \/ ~needs_update(d.name, prog, dashboard)[1]

Excluded(d, prog, dashboard) ==
    \/ d.name \in ToSet(prog.done)
    \/ ~needs_update(d.name, prog, dashboard)[1]

filter_devices(devs, whitelist, start_from, prog, dashboard) ==
    LET devs2 == ApplyStartFrom(ApplyWhitelist(devs, whitelist), start_from)
        out_names == { devs2[i].name : i \in { j \in 1..Len(devs2) :
                                                Excluded(devs2[j], prog, dashboard) } }
    IN  [ filtered |-> SelectSeq(devs2, LAMBDA d : ~Excluded(d, prog, dashboard)),
          skip_reasons |->
              [ n \in out_names |->
                  IF n \in ToSet(prog.done)
                  THEN << "already updated this run" >>
                  ELSE needs_update(n, prog, dashboard)[2] ] ]

\* the cap that keeps the end of the queue
ApplyCapLast(queue, max_devices) ==
    IF max_devices > 0 /\ Len(queue) > max_devices
    THEN SubSeq(queue, Len(queue) - max_devices + 1, Len(queue))
    ELSE queue

\* main, lines 887-892
ApplyCap(queue, max_devices) ==
    IF max_devices > 0 /\ Len(queue) > max_devices
    THEN SubSeq(queue, 1, max_devices)
    ELSE queue

(***************************************************************************)
(* Housekeeping                                                            *)
(* Each step maps w = [state, stateFile, progress, progressFile, fired]    *)
(* to what it is after the step; o holds the options of the run.           *)
(***************************************************************************)
AllHousekeepingOptions ==
    [ always_clear_log_on_version_change : BOOLEAN,
      clear_log_now : BOOLEAN,
      clear_progress_on_start : BOOLEAN,
      clear_progress_now : BOOLEAN ]

\* the options files that leave the two log options at their DEFAULTS
HousekeepingOptions ==
    { o \in AllHousekeepingOptions :
        o.always_clear_log_on_version_change /\ ~o.clear_log_now }

\* state[k] = v; save_state(state)
SetAndSave(w, k, v) ==
    LET s == [w.state EXCEPT ![k] = v]
    IN  [w EXCEPT !.state = s, !.stateFile = StateDict(s)]

\* progress = {"done": [], ...}; save_progress(progress)
ClearProgress(w) ==
    [w EXCEPT !.progress = EmptyProgress, !.progressFile = EmptyProgress]

\* lines 650-657
HkVersionChange(w, o) ==
    IF o.always_clear_log_on_version_change /\ AddonVersion # w.state.last_version
    THEN SetAndSave(w, "last_version", AddonVersion)
    ELSE w

\* lines 664-672
HkClearLogNow(w, o) ==
    IF o.clear_log_now /\ ~w.state.clear_log_now_consumed
    THEN [SetAndSave(w, "clear_log_now_consumed", TRUE)
             EXCEPT !.fired = w.fired \cup {"clear_log_now"}]
    ELSE IF ~o.clear_log_now /\ w.state.clear_log_now_consumed
    THEN SetAndSave(w, "clear_log_now_consumed", FALSE)
    ELSE w

\* lines 674-679
HkClearProgressOnStart(w, o) ==
    IF o.clear_progress_on_start THEN ClearProgress(w) ELSE w

\* the one-shot trigger that forgets to mark itself consumed
HkClearProgressNowNoMark(w, o) ==
    IF o.clear_progress_now /\ ~w.state.clear_progress_now_consumed
    THEN [ClearProgress(w) EXCEPT !.fired = w.fired \cup {"clear_progress_now"}]
    ELSE w

\* lines 681-691
HkClearProgressNow(w, o) ==
    IF o.clear_progress_now /\ ~w.state.clear_progress_now_consumed
    THEN [SetAndSave(ClearProgress(w), "clear_progress_now_consumed", TRUE)
             EXCEPT !.fired = w.fired \cup {"clear_progress_now"}]
    ELSE IF ~o.clear_progress_now /\ w.state.clear_progress_now_consumed
    THEN SetAndSave(w, "clear_progress_now_consumed", FALSE)
    ELSE w

perform_housekeeping(w, o) ==
    HkClearProgressNow(
        HkClearProgressOnStart(
            HkClearLogNow(
                HkVersionChange(w, o), o), o), o)

\* fires of a one-shot trigger since its option was last seen unset
Streak(n, isSet, didFire) ==
    IF ~isSet THEN 0
    ELSE IF didFire THEN (IF n < 2 THEN n + 1 ELSE 2)
    ELSE n

(***************************************************************************)
(* The initial state: no process is running                                *)
(***************************************************************************)
NoStreak == [clear_log_now |-> 0, clear_progress_now |-> 0]
NoOpts == [dry_run |-> FALSE, skip_offline |-> FALSE, delay_between_updates |-> 0]
NoSummary == [total |-> 0, done |-> 0, failed |-> 0, skipped |-> 0, failed_names |-> << >>]
NoOutcomes == [n \in {} |-> "done"]
\* no target resolved, no ping_host call recorded
NoTarget == [host |-> None, suffix |-> ""]
NoPing == [recorded |-> FALSE, tried |-> << >>, result |-> TRUE]
\* nothing recorded about filter_devices
NoFin == [recorded |-> FALSE, whitelist |-> << >>, start_from |-> "",
          max_devices |-> 0, dashboard |-> DashboardAbsent, after_whitelist |-> << >>,
          after_start_from |-> << >>, warned |-> FALSE, uncapped |-> << >>]

\* the memory of a process that has not done anything yet
FreshMemory ==
    /\ devices = << >>
    /\ total = 0
    /\ filtered_devices = << >>
    /\ skip_reasons = NoOutcomes
    /\ done = {} /\ failed = {} /\ skipped = {}
    /\ idx = 0
    /\ status = None
    /\ bin_path = None
    /\ ticks = 0
    /\ op = None
    /\ rc = 0 /\ out = ""
    /\ CURRENT_CHILD = None
    /\ child = "none"
    /\ STOP_REQUESTED = FALSE
    /\ exitCode = NoExit
    /\ endKind = None
    /\ prior = EmptyProgress
    /\ outcomes = NoOutcomes
    /\ sigDev = None /\ sigPhase = None
    /\ cutShort = FALSE
    /\ compiled = {} /\ uploaded = {}
    /\ fired = {}
    /\ offline = {}
    /\ probed = {}
    /\ target = NoTarget
    /\ ping = NoPing
    /\ fin = NoFin
    /\ summary = NoSummary

\* the same memory, as the next state
ResetMemory ==
    /\ devices' = << >>
    /\ total' = 0
    /\ filtered_devices' = << >>
    /\ skip_reasons' = NoOutcomes
    /\ done' = {} /\ failed' = {} /\ skipped' = {}
    /\ idx' = 0
    /\ status' = None
    /\ bin_path' = None
    /\ ticks' = 0
    /\ op' = None
    /\ rc' = 0 /\ out' = ""
    /\ CURRENT_CHILD' = None
    /\ child' = "none"
    /\ STOP_REQUESTED' = FALSE
    /\ exitCode' = NoExit
    /\ endKind' = None
    /\ prior' = EmptyProgress
    /\ outcomes' = NoOutcomes
    /\ sigDev' = None /\ sigPhase' = None
    /\ cutShort' = FALSE
    /\ compiled' = {} /\ uploaded' = {}
    /\ fired' = {}
    /\ offline' = {}
    /\ probed' = {}
    /\ target' = NoTarget
    /\ ping' = NoPing
    /\ fin' = NoFin
    /\ summary' = NoSummary

Init ==
    /\ configDir \in ConfigDirs
    /\ progressFile \in {FileAbsent, FileList}
    /\ stateFile = StateAbsent
    /\ pc = "idle"
    /\ runStartFile = progressFile
    /\ lastSaved = progressFile
    /\ streakFires = NoStreak
    /\ opts = NoOpts
    /\ state = DefaultState
    /\ progress = EmptyProgress
    /\ FreshMemory

(***************************************************************************)
(* Variable groups                                                         *)
(***************************************************************************)
files == << configDir, progressFile, stateFile, lastSaved >>
cfg == << opts, state, devices, total >>
queue == << filtered_devices, skip_reasons, prior, fin >>
sets == << progress, done, failed, skipped >>
loop == << idx, status, bin_path, ticks, outcomes, cutShort, compiled, uploaded >>
runv == << op, rc, out, CURRENT_CHILD, child >>
sig == << STOP_REQUESTED, sigDev, sigPhase >>
ends == << exitCode, endKind, summary >>
hk == << runStartFile, fired, streakFires, offline, probed, target, ping >>

Alive == pc \notin {"idle", "exited"}
RunPcs == {"run_enter", "run_spawned", "run_wait", "run_ret"}
InUpdate == pc \in {"upd_ping", "upd_dry", "upd_802"} \cup RunPcs
CurDev == filtered_devices[idx]

\* which part of update_device the main thread is in
Phase ==
    IF ~InUpdate THEN "outside"
    ELSE IF pc \in RunPcs /\ op = "upload" THEN "post802"
    ELSE "pre802"

\* sys.exit(code), or main() returning (code 0), or an exception reaching
\* the entry point (code ExitFatal)
Exit(code, kind) ==
    /\ pc' = "exited"
    /\ exitCode' = code
    /\ endKind' = kind

\* update_device returns st
Return(st) ==
    /\ status' = st
    /\ outcomes' = (CurDev.name :> st) @@ outcomes
    /\ pc' = "classify"

(***************************************************************************)
(* main: start of a run, lines 824-907                                     *)
(***************************************************************************)
LoopOptions ==
    [ dry_run : BOOLEAN, skip_offline : BOOLEAN,
      delay_between_updates : 0..MaxDelay ]

\* the options files of dry runs without a delay
DryLoopOptions ==
    { o \in LoopOptions : o.dry_run /\ o.delay_between_updates = 0 }

\* a new process: load_options, load_state, load_progress
StartRunWith(options) ==
    /\ pc \in {"idle", "exited"}
    /\ opts' \in options
    /\ state' = load_state(stateFile)
    /\ progress' = load_progress(progressFile)
    /\ runStartFile' = progressFile
    /\ ResetMemory
    /\ pc' = "housekeeping"
    /\ UNCHANGED << files, streakFires >>

StartRun == StartRunWith(LoopOptions)

StartDryRun == StartRunWith(DryLoopOptions)

\* the first process started on the machine
StartFirstRun == pc = "idle" /\ StartRunWith(LoopOptions)

\* perform_housekeeping as main calls it, line 832
HousekeepingWith(options) ==
    /\ pc = "housekeeping"
    /\ \E o \in options :
         LET w == perform_housekeeping(
                      [state |-> state, stateFile |-> stateFile,
                       progress |-> progress, progressFile |-> progressFile,
                       fired |-> {}], o)
         IN  /\ state' = w.state
             /\ stateFile' = w.stateFile
             /\ progress' = w.progress
             /\ progressFile' = w.progressFile
             /\ lastSaved' = w.progressFile
             /\ fired' = w.fired
             /\ prior' = w.progress
             /\ streakFires' =
                  [clear_log_now |->
                      Streak(streakFires.clear_log_now, o.clear_log_now,
                             "clear_log_now" \in w.fired),
                   clear_progress_now |->
                      Streak(streakFires.clear_progress_now, o.clear_progress_now,
                             "clear_progress_now" \in w.fired)]
    /\ pc' = "preflight"
    /\ UNCHANGED << configDir, opts, devices, total, filtered_devices, skip_reasons,
                    done, failed, skipped, loop, runv, sig, ends, runStartFile,
                    offline, probed, target, ping, fin >>

Housekeeping == HousekeepingWith(HousekeepingOptions)

HousekeepingAll == HousekeepingWith(AllHousekeepingOptions)

\* verify_safe_operation, verify_esphome_container, verify_esphome_config_dir.
\* runStartFile is observed until the checks are over.
Preflight ==
    /\ pc = "preflight"
    /\ \E docker_ok \in BOOLEAN, container_ok \in BOOLEAN :
         IF docker_ok /\ container_ok /\ verify_esphome_config_dir(configDir)
         THEN /\ pc' = "discover"
              /\ runStartFile' = FileAbsent
              /\ UNCHANGED << exitCode, endKind >>
         ELSE /\ Exit(ExitPreflight, "preflight")
              /\ UNCHANGED runStartFile
    /\ UNCHANGED << files, cfg, queue, sets, loop, runv, sig, summary, fired,
                    streakFires, offline, probed, target, ping >>

Discover ==
    /\ pc = "discover"
    /\ devices' = discover_devices(configDir)
    /\ total' = Len(devices')
    /\ IF total' = 0
       THEN Exit(ExitSuccess, "nothing")
       ELSE pc' = "filter" /\ UNCHANGED << exitCode, endKind >>
    /\ UNCHANGED << files, opts, state, queue, sets, loop, runv, sig, summary, hk >>

\* filter_devices, the cap, the empty-queue return and the set-up of the loop.
\* The allow-list, the start offset and the dashboard are drawn from W, S
\* and D and the cap from C; with observe they and the stages of the filter
\* are recorded in fin.
FilterWith(prog, W, S, C, D, observe) ==
    /\ pc = "filter"
    /\ \E whitelist \in W, start_from \in S,
          max_devices \in C, dashboard \in D :
         IF FilterRaises(devices, whitelist, start_from, prog)
         THEN /\ Exit(ExitFatal, "fault")
              /\ UNCHANGED << filtered_devices, skip_reasons, done, failed, skipped,
                              fin >>
         ELSE LET f == filter_devices(devices, whitelist, start_from, prog, dashboard)
                  q == ApplyCap(f.filtered, max_devices)
                  w == ApplyWhitelist(devices, whitelist)
              IN  /\ filtered_devices' = q
                  /\ skip_reasons' = f.skip_reasons
                  /\ fin' = IF observe
                            THEN [recorded |-> TRUE, whitelist |-> whitelist,
                                  start_from |-> start_from,
                                  max_devices |-> max_devices,
                                  dashboard |-> dashboard,
                                  after_whitelist |-> w,
                                  after_start_from |-> ApplyStartFrom(w, start_from),
                                  warned |-> StartFromWarns(w, start_from),
                                  uncapped |-> f.filtered]
                            ELSE fin
                  /\ IF Len(q) = 0
                     THEN /\ Exit(ExitSuccess, "nothing")
                          /\ UNCHANGED << done, failed, skipped >>
                     ELSE /\ pc' = "loop_top"
                          /\ done' = ToSet(prog.done)
                          /\ failed' = ToSet(prog.failed)
                          /\ skipped' = ToSet(prog.skipped)
                          /\ UNCHANGED << exitCode, endKind >>
    /\ UNCHANGED << files, cfg, prior, progress, loop, runv, sig, summary, hk >>

\* the call that drops the loaded progress
FilterFresh ==
    FilterWith(EmptyProgress, Whitelists, StartFroms, 0..MaxCap, Dashboards, FALSE)

Filter == FilterWith(progress, Whitelists, StartFroms, 0..MaxCap, Dashboards, FALSE)

\* version pairs of a dashboard that knows both versions of every device
KnownPairs == { << "1.2.0", "1.2.0" >>, << "1.2.0", "1.3.0" >> }

\* the filter of a run without allow-list and start offset, recorded
FilterObserved ==
    FilterWith(progress, { << >> }, { "" }, 0..MaxCap,
               DashboardsOver({"a", "b", "c"}, KnownPairs), TRUE)

(***************************************************************************)
(* Signal handling                                                         *)
(***************************************************************************)
\* _sig_handler, run between two steps of the main thread.  A further
\* signal changes something only if a child is there to be killed.
Signal ==
    /\ Alive
    /\ LET kills == CURRENT_CHILD # None /\ child = "running"
       IN  /\ ~STOP_REQUESTED \/ kills
           /\ STOP_REQUESTED' = TRUE
           /\ child' = IF kills THEN "killed" ELSE child
           /\ cutShort' = (cutShort \/ kills)
           /\ IF STOP_REQUESTED
              THEN UNCHANGED << sigDev, sigPhase >>
              ELSE /\ sigPhase' = Phase
                   /\ sigDev' = IF InUpdate THEN CurDev.name ELSE None
    /\ UNCHANGED << files, cfg, queue, sets, idx, status, bin_path, ticks, outcomes,
                    compiled, uploaded, op, rc, out, CURRENT_CHILD, ends, hk, pc >>

(***************************************************************************)
(* _run, lines 281-322                                                     *)
(***************************************************************************)
LsOutputs == { "", "/data/build/x/.pioenvs/x/firmware.bin" }
UploadOutputs == { "", "OTA successful", "Successfully uploaded program",
                   "INFO OTA successful" }
OutputsOf(o) ==
    IF o = "ls" THEN LsOutputs ELSE IF o = "upload" THEN UploadOutputs ELSE { "" }

\* the stop check, then Popen
RunEnter ==
    /\ pc = "run_enter"
    /\ IF STOP_REQUESTED
       THEN /\ rc' = ExitStopShortCircuit
            /\ out' = ""
            /\ cutShort' = TRUE
            /\ pc' = "run_ret"
            /\ UNCHANGED child
       ELSE /\ child' = "running"
            /\ pc' = "run_spawned"
            /\ UNCHANGED << rc, out, cutShort >>
    /\ UNCHANGED << files, cfg, queue, sets, idx, status, bin_path, ticks, outcomes,
                    compiled, uploaded, op, CURRENT_CHILD, sig, ends, hk >>

\* CURRENT_CHILD = p
RunPublish ==
    /\ pc = "run_spawned"
    /\ CURRENT_CHILD' = "p"
    /\ pc' = "run_wait"
    /\ UNCHANGED << files, cfg, queue, sets, loop, op, rc, out, child, sig, ends, hk >>

\* p.communicate() / p.wait() return, then the finally clause.  A child the
\* handler signalled ends with the signal's status unless it had finished.
RunWaitWith(handle) ==
    /\ pc = "run_wait"
    /\ \E r \in (IF child = "killed" THEN {KilledRc, 0} ELSE {0, 1}),
          o \in OutputsOf(op) :
         /\ rc' = r
         /\ out' = o
    /\ child' = "none"
    /\ CURRENT_CHILD' = handle
    /\ pc' = "run_ret"
    /\ UNCHANGED << files, cfg, queue, sets, loop, op, sig, ends, hk >>

\* the return that leaves the handle as it is
RunWaitKeepsHandle == RunWaitWith(CURRENT_CHILD)

RunWait == RunWaitWith(None)

(***************************************************************************)
(* compile_in_esphome_container, lines 409-461                             *)
(***************************************************************************)
\* back in update_device with the result of the compile
CompileReturns(path) ==
    /\ bin_path' = path
    /\ op' = None
    /\ rc' = 0 /\ out' = ""
    /\ pc' = "upd_802"

\* the next call of _run; the values the last one returned are used up
NextRun(o) ==
    /\ op' = o
    /\ rc' = 0 /\ out' = ""
    /\ pc' = "run_enter"
    /\ UNCHANGED bin_path

AfterCompile ==
    /\ pc = "run_ret" /\ op = "compile"
    /\ IF rc # 0 \/ STOP_REQUESTED THEN CompileReturns(None) ELSE NextRun("ls")
    /\ UNCHANGED << files, cfg, queue, sets, idx, status, ticks, outcomes, cutShort,
                    compiled, uploaded, CURRENT_CHILD, child, sig, ends, hk >>

AfterLs ==
    /\ pc = "run_ret" /\ op = "ls"
    /\ IF rc = 0 /\ out # "" THEN NextRun("cp_pio") ELSE NextRun("cp_legacy")
    /\ UNCHANGED << files, cfg, queue, sets, idx, status, ticks, outcomes, cutShort,
                    compiled, uploaded, CURRENT_CHILD, child, sig, ends, hk >>

AfterCpPio ==
    /\ pc = "run_ret" /\ op = "cp_pio"
    /\ IF rc = 0 THEN CompileReturns("dst") ELSE NextRun("cp_legacy")
    /\ UNCHANGED << files, cfg, queue, sets, idx, status, ticks, outcomes, cutShort,
                    compiled, uploaded, CURRENT_CHILD, child, sig, ends, hk >>

AfterCpLegacy ==
    /\ pc = "run_ret" /\ op = "cp_legacy"
    /\ IF rc = 0 THEN CompileReturns("dst") ELSE CompileReturns(None)
    /\ UNCHANGED << files, cfg, queue, sets, idx, status, ticks, outcomes, cutShort,
                    compiled, uploaded, CURRENT_CHILD, child, sig, ends, hk >>

(***************************************************************************)
(* update_device, lines 757-822                                            *)
(***************************************************************************)
\* line 783: the static address when there is one, else <node>.local
TargetOf(dev) ==
    IF dev.address # None THEN [host |-> dev.address, suffix |-> ""]
    ELSE [host |-> dev.node, suffix |-> ".local"]

\* lines 781-790, with cond standing for the test of line 786, obey for the
\* return that follows a failed probe and observe for recording the call
ProbeIf(cond, obey, observe) ==
    /\ pc = "upd_ping"
    /\ target' = TargetOf(CurDev)
    /\ IF cond
       THEN \E a1 \in PingAttempts, a2 \in PingAttempts :
              /\ probed' = probed \cup {CurDev.name}
              /\ ping' = IF observe
                         THEN [recorded |-> TRUE, tried |-> ping_tried(a1, a2),
                               result |-> ping_host(a1, a2)]
                         ELSE ping
              /\ IF ping_host(a1, a2)
                 THEN pc' = "upd_dry" /\ UNCHANGED << status, outcomes, offline >>
                 ELSE /\ offline' = offline \cup {CurDev.name}
                      /\ IF obey
                         THEN Return("skipped")
                         ELSE pc' = "upd_dry" /\ UNCHANGED << status, outcomes >>
       ELSE /\ pc' = "upd_dry"
            /\ UNCHANGED << status, outcomes, offline, probed, ping >>
    /\ UNCHANGED << files, cfg, queue, sets, idx, bin_path, ticks, cutShort,
                    compiled, uploaded, runv, sig, ends, runStartFile, fired,
                    streakFires >>

\* with gate standing for skip_offline
Probe(gate, obey) == ProbeIf(gate /\ CurDev.address # None, obey, FALSE)

\* the probe made for every device, with a static address or not
UpdPingAddressless == ProbeIf(opts.skip_offline, TRUE, FALSE)

\* the probe whose invocations are recorded
UpdPingObserved == ProbeIf(opts.skip_offline /\ CurDev.address # None, TRUE, TRUE)

\* the probe made whatever skip_offline says
UpdPingAlways == Probe(TRUE, TRUE)

\* the probe whose failure does not end the update of the device
UpdPingNoSkip == Probe(opts.skip_offline, FALSE)

UpdPing == Probe(opts.skip_offline, TRUE)

\* lines 792-801, with dry standing for the dry_run flag
DryRunOrCompile(dry) ==
    /\ pc = "upd_dry"
    /\ IF dry
       THEN /\ Return("done")
            /\ UNCHANGED << compiled, op >>
       ELSE /\ compiled' = compiled \cup {CurDev.name}
            /\ op' = "compile"
            /\ pc' = "run_enter"
            /\ UNCHANGED << status, outcomes >>
    /\ UNCHANGED << files, cfg, queue, sets, idx, bin_path, ticks, cutShort,
                    uploaded, rc, out, CURRENT_CHILD, child, sig, ends, hk >>

\* the update that ignores dry_run
UpdDryRunIgnored == DryRunOrCompile(FALSE)

UpdDryRun == DryRunOrCompile(opts.dry_run)

\* lines 802-810, with stop standing for the test of STOP_REQUESTED
AfterCompileReturned(stop) ==
    /\ pc = "upd_802"
    /\ IF stop
       THEN Return("skipped") /\ UNCHANGED << uploaded, op >>
       ELSE IF bin_path = None
       THEN Return("failed") /\ UNCHANGED << uploaded, op >>
       ELSE /\ uploaded' = uploaded \cup {CurDev.name}
            /\ op' = "upload"
            /\ pc' = "run_enter"
            /\ UNCHANGED << status, outcomes >>
    /\ UNCHANGED << files, cfg, queue, sets, idx, bin_path, ticks, cutShort,
                    compiled, rc, out, CURRENT_CHILD, child, sig, ends, hk >>

\* the update that does not look at the stop flag after the compile
Upd802NoStopCheck == AfterCompileReturned(FALSE)

Upd802 == AfterCompileReturned(STOP_REQUESTED)

\* `phrase in out` for the captured outputs above
Contains(o, phrase) ==
    \/ o = phrase
    \/ << o, phrase >> \in { << "INFO OTA successful", "OTA successful" >> }

\* the upload that counts only the exit status
UploadSuccessRcOnly(r, o) == r = 0

\* ota_upload_via_esphome, lines 479-485
UploadSuccess(r, o) ==
    \/ r = 0
    \/ Contains(o, "OTA successful")
    \/ Contains(o, "Successfully uploaded program")

\* lines 810-822
AfterUpload ==
    /\ pc = "run_ret" /\ op = "upload"
    /\ IF UploadSuccess(rc, out) THEN Return("done") ELSE Return("failed")
    /\ op' = None
    /\ rc' = 0 /\ out' = ""
    /\ UNCHANGED << files, cfg, queue, sets, idx, bin_path, ticks, cutShort,
                    compiled, uploaded, CURRENT_CHILD, child, sig, ends, hk >>

(***************************************************************************)
(* main: the processing loop, lines 909-950, and the summary               *)
(***************************************************************************)
\* the for statement and lines 910-918, with stop standing for the test
\* of STOP_REQUESTED
LoopHead(stop) ==
    /\ pc = "loop_top"
    /\ IF idx = Len(filtered_devices)
       THEN /\ pc' = "summary"
            /\ UNCHANGED << idx, cutShort, endKind >>
       ELSE IF stop
       THEN /\ pc' = "summary"
            /\ endKind' = "interrupted"
            /\ UNCHANGED << idx, cutShort >>
       ELSE /\ idx' = idx + 1
            /\ cutShort' = FALSE
            /\ pc' = "upd_ping"
            /\ UNCHANGED endKind
    /\ UNCHANGED << files, cfg, queue, sets, status, bin_path, ticks, outcomes,
                    compiled, uploaded, runv, sig, exitCode, summary, hk >>

\* the loop that does not test the stop flag at the top
LoopTopNoStopCheck == LoopHead(FALSE)

LoopTop == LoopHead(STOP_REQUESTED)

\* the classification that keeps a name in one set only
ClassifySetsExclusive(st, name, d, f, s) ==
    IF st = "done"
    THEN [done |-> d \cup {name}, failed |-> f \ {name}, skipped |-> s \ {name}]
    ELSE IF st = "failed"
    THEN [done |-> d \ {name}, failed |-> f \cup {name}, skipped |-> s \ {name}]
    ELSE IF st = "skipped"
    THEN [done |-> d \ {name}, failed |-> f \ {name}, skipped |-> s \cup {name}]
    ELSE [done |-> d, failed |-> f, skipped |-> s]

\* lines 923-932: the three sets after a device returned st
ClassifySets(st, name, d, f, s) ==
    IF st = "done" THEN [done |-> d \cup {name}, failed |-> f \ {name}, skipped |-> s]
    ELSE IF st = "failed" THEN [done |-> d, failed |-> f \cup {name}, skipped |-> s]
    ELSE IF st = "skipped" THEN [done |-> d, failed |-> f, skipped |-> s \cup {name}]
    ELSE [done |-> d, failed |-> f, skipped |-> s]

\* lines 923-937
Classify ==
    /\ pc = "classify"
    /\ LET c == ClassifySets(status, CurDev.name, done, failed, skipped)
       IN  /\ done' = c.done
           /\ failed' = c.failed
           /\ skipped' = c.skipped
           /\ progress' = Dict(SortedList(c.done), SortedList(c.failed),
                               SortedList(c.skipped))
    /\ pc' = "save"
    /\ UNCHANGED << files, cfg, queue, loop, runv, sig, ends, hk >>

\* save_json: write_text opens the file for writing, which empties it ...
SaveOpen ==
    /\ pc = "save"
    /\ progressFile' = FileUnparsable
    /\ pc' = "save_write"
    /\ UNCHANGED << configDir, stateFile, lastSaved, cfg, queue, sets, loop, runv,
                    sig, ends, hk >>

\* ... and then writes the text; line 941 sets up the delay loop
SaveWrite ==
    /\ pc = "save_write"
    /\ progressFile' = progress
    /\ lastSaved' = progress
    /\ ticks' = IF idx < Len(filtered_devices) THEN opts.delay_between_updates ELSE 0
    /\ pc' = "delay"
    /\ UNCHANGED << configDir, stateFile, cfg, queue, sets, idx, status, bin_path,
                    outcomes, cutShort, compiled, uploaded, runv, sig, ends, hk >>

\* one iteration of the delay loop, lines 942-945
DelayTick ==
    /\ pc = "delay"
    /\ ticks > 0
    /\ ticks' = IF STOP_REQUESTED THEN 0 ELSE ticks - 1
    /\ UNCHANGED << files, cfg, queue, sets, idx, status, bin_path, outcomes, cutShort,
                    compiled, uploaded, runv, sig, ends, hk, pc >>

\* lines 947-950
AfterDelay ==
    /\ pc = "delay"
    /\ ticks = 0
    /\ IF STOP_REQUESTED
       THEN pc' = "summary" /\ endKind' = "interrupted"
       ELSE pc' = "loop_top" /\ UNCHANGED endKind
    /\ UNCHANGED << files, cfg, queue, sets, loop, runv, sig, exitCode, summary, hk >>

\* lines 952-970, and main returning to the entry point; tot stands for
\* the count printed as "Total devices"
SummaryWith(tot) ==
    /\ pc = "summary"
    /\ summary' = [total |-> tot, done |-> Cardinality(done),
                   failed |-> Cardinality(failed), skipped |-> Cardinality(skipped),
                   failed_names |-> SortedList(failed)]
    /\ Exit(ExitSuccess, IF endKind = "interrupted" THEN endKind ELSE "completed")
    /\ UNCHANGED << files, cfg, queue, sets, loop, runv, sig, hk >>

\* the summary that counts the work queue as the total
SummaryOfQueue == SummaryWith(Len(filtered_devices))

Summary == SummaryWith(total)

(***************************************************************************)
(* Abrupt termination: the process is killed where it stands.  Its memory  *)
(* is lost; the files stay as they are.                                    *)
(***************************************************************************)
Crash ==
    /\ Alive
    /\ pc' = "exited"
    /\ opts' = NoOpts
    /\ state' = DefaultState
    /\ progress' = EmptyProgress
    /\ ResetMemory
    /\ UNCHANGED << files, runStartFile, streakFires >>

(***************************************************************************)
(* Specifications                                                          *)
(***************************************************************************)
Next ==
    \/ StartRun \/ Housekeeping \/ Preflight \/ Discover \/ Filter
    \/ LoopTop \/ UpdPing \/ UpdDryRun
    \/ RunEnter \/ RunPublish \/ RunWait
    \/ AfterCompile \/ AfterLs \/ AfterCpPio \/ AfterCpLegacy
    \/ Upd802 \/ AfterUpload
    \/ Classify \/ SaveOpen \/ SaveWrite \/ DelayTick \/ AfterDelay \/ Summary
    \/ Signal

Spec == Init /\ [][Next]_vars

NextCrash == Next \/ Crash

SpecCrash == Init /\ [][NextCrash]_vars

\* dry runs under every combination of the housekeeping options
NextTriggers ==
    \/ StartDryRun \/ HousekeepingAll \/ Preflight \/ Discover \/ Filter
    \/ LoopTop \/ UpdPing \/ UpdDryRun
    \/ Classify \/ SaveOpen \/ SaveWrite \/ AfterDelay \/ Summary
    \/ Signal

SpecTriggers == Init /\ [][NextTriggers]_vars

\* one run over three devices, with or without progress of an earlier run
ScenarioDir == [exists |-> TRUE, yamls |-> << YamlA, YamlB, YamlC, YamlSecrets >>]

InitScenario ==
    /\ configDir = ScenarioDir
    /\ progressFile \in {FileAbsent, Dict(<< >>, << "b" >>, << "c" >>)}
    /\ stateFile = StateAbsent
    /\ pc = "idle"
    /\ runStartFile = progressFile
    /\ lastSaved = progressFile
    /\ streakFires = NoStreak
    /\ opts = NoOpts
    /\ state = DefaultState
    /\ progress = EmptyProgress
    /\ FreshMemory

NextScenario ==
    \/ StartFirstRun \/ Housekeeping \/ Preflight \/ Discover \/ FilterObserved
    \/ LoopTop \/ UpdPing \/ UpdDryRun
    \/ RunEnter \/ RunPublish \/ RunWait
    \/ AfterCompile \/ AfterLs \/ AfterCpPio \/ AfterCpLegacy
    \/ Upd802 \/ AfterUpload
    \/ Classify \/ SaveOpen \/ SaveWrite \/ DelayTick \/ AfterDelay \/ Summary
    \/ Signal

SpecScenario == InitScenario /\ [][NextScenario]_vars

\* the same run with the invocations of ping_host recorded
NextPing ==
    \/ StartFirstRun \/ Housekeeping \/ Preflight \/ Discover \/ Filter
    \/ LoopTop \/ UpdPingObserved \/ UpdDryRun
    \/ RunEnter \/ RunPublish \/ RunWait
    \/ AfterCompile \/ AfterLs \/ AfterCpPio \/ AfterCpLegacy
    \/ Upd802 \/ AfterUpload
    \/ Classify \/ SaveOpen \/ SaveWrite \/ DelayTick \/ AfterDelay \/ Summary

SpecPing == InitScenario /\ [][NextPing]_vars

\* the add-on run again and again over three devices that stay stale, with a
\* cap above 0, without allow-list, start offset and progress clearing,
\* and without stop signals
ResumeOptions == { o \in LoopOptions : ~o.dry_run }
ResumeHousekeeping ==
    { o \in HousekeepingOptions : ~o.clear_progress_on_start /\ ~o.clear_progress_now }
StaleDashboards == DashboardsOver({"a", "b", "c"}, { << "1.2.0", "1.3.0" >> })

InitResume ==
    /\ configDir = ScenarioDir
    /\ progressFile = FileAbsent
    /\ stateFile = StateAbsent
    /\ pc = "idle"
    /\ runStartFile = progressFile
    /\ lastSaved = progressFile
    /\ streakFires = NoStreak
    /\ opts = NoOpts
    /\ state = DefaultState
    /\ progress = EmptyProgress
    /\ FreshMemory

StartResumeRun == StartRunWith(ResumeOptions)

HousekeepingResume == HousekeepingWith(ResumeHousekeeping)

\* the caps above 0 of the resumed runs
ResumeCaps == 1..(MaxCap + 1)

FilterResume ==
    FilterWith(progress, { << >> }, { "" }, ResumeCaps, StaleDashboards, TRUE)

NextResume ==
    \/ StartResumeRun \/ HousekeepingResume \/ Preflight \/ Discover \/ FilterResume
    \/ LoopTop \/ UpdPing \/ UpdDryRun
    \/ RunEnter \/ RunPublish \/ RunWait
    \/ AfterCompile \/ AfterLs \/ AfterCpPio \/ AfterCpLegacy
    \/ Upd802 \/ AfterUpload
    \/ Classify \/ SaveOpen \/ SaveWrite \/ DelayTick \/ AfterDelay \/ Summary

\* a process that is running takes its next step, and a process that has
\* ended is followed by the next run
SpecResume == InitResume /\ [][NextResume]_vars /\ WF_vars(NextResume)

\* the steps of the main thread of a started process; every child operation
\* terminates, so RunWait is one of them
MainStep ==
    \/ Housekeeping \/ Preflight \/ Discover \/ FilterObserved
    \/ LoopTop \/ UpdPing \/ UpdDryRun
    \/ RunEnter \/ RunPublish \/ RunWait
    \/ AfterCompile \/ AfterLs \/ AfterCpPio \/ AfterCpLegacy
    \/ Upd802 \/ AfterUpload
    \/ Classify \/ SaveOpen \/ SaveWrite \/ DelayTick \/ AfterDelay \/ Summary

\* the run over three devices, whose main thread keeps taking steps
SpecScenarioLive == SpecScenario /\ WF_vars(MainStep)

\* filter_devices applied to the device lists, progress records, allow-lists,
\* start offsets and dashboards below; the process stands before line 876
FilterDirs ==
    { [exists |-> TRUE, yamls |-> << YamlA, YamlB, YamlC, YamlD, YamlSecrets >>],
      [exists |-> TRUE, yamls |-> << YamlA, YamlC, YamlD >>],
      [exists |-> TRUE, yamls |-> << YamlB, YamlD, YamlSecrets >>],
      [exists |-> TRUE, yamls |-> << YamlB >>] }
FilterProgressFiles ==
    { FileAbsent, FileUnparsable, Dict(<< "c" >>, << >>, << "a" >>),
      Dict(<< "a", "d" >>, << "b" >>, << >>) }
FilterWhitelists ==
    { << >>, << "c", "a" >>, << "a", "c" >>, << "zz" >>, << "d", "zz", "b" >> }
FilterStartFroms == { "", "a", "c", "zz" }
AllPairs == VersionPairs \cup { << "1.2.0", None >> }
FilterDashboards == DashboardsOver({"a", "c"}, AllPairs)

InitFilter ==
    /\ configDir \in FilterDirs
    /\ progressFile \in FilterProgressFiles
    /\ state = [DefaultState EXCEPT !.last_version = AddonVersion]
    /\ stateFile = StateDict(state)
    /\ pc = "filter"
    /\ runStartFile = FileAbsent
    /\ lastSaved = progressFile
    /\ streakFires = NoStreak
    /\ opts \in DryLoopOptions
    /\ progress = load_progress(progressFile)
    /\ prior = progress
    /\ devices = discover_devices(configDir)
    /\ total = Len(devices)
    /\ filtered_devices = << >>
    /\ skip_reasons = NoOutcomes
    /\ done = {} /\ failed = {} /\ skipped = {}
    /\ idx = 0
    /\ status = None
    /\ bin_path = None
    /\ ticks = 0
    /\ op = None
    /\ rc = 0 /\ out = ""
    /\ CURRENT_CHILD = None
    /\ child = "none"
    /\ STOP_REQUESTED = FALSE
    /\ exitCode = NoExit
    /\ endKind = None
    /\ outcomes = NoOutcomes
    /\ sigDev = None /\ sigPhase = None
    /\ cutShort = FALSE
    /\ compiled = {} /\ uploaded = {}
    /\ fired = {}
    /\ offline = {}
    /\ probed = {}
    /\ target = NoTarget
    /\ ping = NoPing
    /\ fin = NoFin
    /\ summary = NoSummary

FilterApply ==
    FilterWith(progress, FilterWhitelists, FilterStartFroms, 0..MaxCap,
               FilterDashboards, TRUE)

NextFilter == FilterApply

SpecFilter == InitFilter /\ [][NextFilter]_vars

(***************************************************************************)
(* Properties                                                              *)
(***************************************************************************)
LoopPcs == {"loop_top", "upd_ping", "upd_dry", "upd_802", "classify", "save",
            "save_write", "delay", "summary"} \cup RunPcs

QueueNames == { filtered_devices[i].name : i \in 1..Len(filtered_devices) }

WithStatus(st) == { n \in DOMAIN outcomes : outcomes[n] = st }

Interrupted == pc = "exited" /\ endKind = "interrupted"

\* the three sets of a progress value are pairwise disjoint
Disjoint3(p) ==
    /\ ToSet(p.done) \cap ToSet(p.failed) = {}
    /\ ToSet(p.done) \cap ToSet(p.skipped) = {}
    /\ ToSet(p.failed) \cap ToSet(p.skipped) = {}

\* C1: at every persisted snapshot of the progress record the sets done,
\* failed and skipped are pairwise disjoint.
C1_ProgressSetsDisjoint ==
    progressFile.kind = "dict" => Disjoint3(progressFile)

C3_HaltsBeforeNextDevice ==
    [][ (STOP_REQUESTED /\ pc \in LoopPcs) =>
            /\ idx' = idx
            /\ compiled' \cup uploaded' \cup DOMAIN outcomes'
                   \subseteq compiled \cup uploaded \cup DOMAIN outcomes
                             \cup { filtered_devices[i].name : i \in {idx} \ {0} }
            /\ (pc = "loop_top" => pc' \in {"loop_top", "summary"})
            /\ (pc = "delay" /\ ticks = 0 => pc' \in {"delay", "summary"})
      ]_vars

\* an interrupted run has reached the summary with a device left unprocessed
C3_Witness ==
    /\ Interrupted
    /\ idx >= 1
    /\ idx < Len(filtered_devices)
    /\ summary.total > 0

\* the progress record that is the prior one plus the given outcomes
PlusOutcomes(p, names) ==
    Dict(SortedList(ToSet(p.done) \cup (WithStatus("done") \cap names)),
         SortedList((ToSet(p.failed) \ (WithStatus("done") \cap names))
                        \cup (WithStatus("failed") \cap names)),
         SortedList(ToSet(p.skipped) \cup (WithStatus("skipped") \cap names)))

\* C4 as stated: after an interrupted run the progress file holds the prior
\* progress plus the outcomes of the devices completed before the signal;
\* the device in flight when the signal arrived is recorded nowhere (here:
\* a device whose compile had been called for).
C4_InFlightUnclassified ==
    Interrupted /\ (sigDev = None \/ sigDev \in compiled) =>
        load_progress(progressFile) = PlusOutcomes(prior, DOMAIN outcomes \ {sigDev})

\* C4 as amended: after an interrupted run the progress file holds the prior
\* progress plus the outcome of every device the loop started, the device in
\* flight at the signal included: it is recorded as skipped when the signal
\* arrives before the stop check that follows the compile (in a dry run: as
\* done, or as skipped when probed offline), and as done or failed by the
\* result of the upload when the signal arrives later.
C4_InFlightClassified ==
    Interrupted =>
        /\ load_progress(progressFile) = PlusOutcomes(prior, DOMAIN outcomes)
        /\ sigDev # None =>
              /\ sigDev \in DOMAIN outcomes
              /\ sigPhase = "pre802" /\ ~opts.dry_run => outcomes[sigDev] = "skipped"
              /\ sigPhase = "pre802" /\ opts.dry_run =>
                     outcomes[sigDev] \in {"done", "skipped"}
              /\ sigPhase = "post802" => outcomes[sigDev] \in {"done", "failed"}

\* a run interrupted during a compile has recorded that device as skipped
C4_Witness ==
    /\ Interrupted
    /\ sigDev # None
    /\ sigPhase = "pre802"
    /\ sigDev \in compiled
    /\ sigDev \in ToSet(progressFile.skipped)
    /\ sigDev \notin ToSet(prior.skipped)

\* C5: after an abrupt termination the progress record the next run loads
\* still holds every outcome whose write had completed.
C5_CrashKeepsPersisted ==
    pc = "housekeeping" /\ lastSaved.kind = "dict" =>
        /\ ToSet(lastSaved.done) \subseteq ToSet(progress.done)
        /\ ToSet(lastSaved.failed) \subseteq ToSet(progress.failed)
        /\ ToSet(lastSaved.skipped) \subseteq ToSet(progress.skipped)

\* C6: a run that ends on a failed pre-flight check exits non-zero, has
\* processed no device and leaves the persisted progress record as it was
\* when the run started.
C6_PreflightFailureKeepsProgress ==
    pc = "exited" /\ endKind = "preflight" =>
        /\ exitCode # ExitSuccess
        /\ idx = 0
        /\ runStartFile.kind = "dict" => progressFile = runStartFile

\* C7: the exit status is the success status exactly when the run completes
\* or has nothing to process, and pre-flight failure, interruption and
\* internal fault end with three different non-zero statuses.
C7_ExitStatusesDistinct ==
    pc = "exited" /\ endKind # None =>
        /\ exitCode = ExitSuccess <=> endKind \in {"completed", "nothing"}
        /\ endKind = "interrupted" => exitCode \notin {ExitPreflight, ExitFatal}
        /\ endKind = "fault" => exitCode # ExitPreflight

\* C8: a device whose compile or upload was cut short or pre-empted by an
\* interruption request is never classified failed.
C8_InterruptedNeverFailed ==
    idx >= 1 /\ cutShort /\ CurDev.name \in DOMAIN outcomes =>
        outcomes[CurDev.name] # "failed"

\* C9: while a one-shot option stays set its clear fires in at most one run,
\* and a trigger that fired is recorded as consumed in the state file.
C9_OneShotFiresOnce ==
    /\ streakFires.clear_log_now <= 1
    /\ streakFires.clear_progress_now <= 1
    /\ "clear_log_now" \in fired =>
           stateFile.kind = "dict" /\ stateFile.dict.clear_log_now_consumed
    /\ "clear_progress_now" \in fired =>
           stateFile.kind = "dict" /\ stateFile.dict.clear_progress_now_consumed

\* a later run has seen both options still set and fired neither trigger
C9_Witness ==
    /\ pc = "preflight"
    /\ fired = {}
    /\ streakFires.clear_log_now = 1
    /\ streakFires.clear_progress_now = 1
    /\ ToSet(progress.done) # {}

\* C10: in a dry run no compile and no upload is invoked, whatever signals
\* arrive.
C10_DryRunInvokesNothing ==
    opts.dry_run =>
        /\ compiled = {} /\ uploaded = {}
        /\ pc \notin RunPcs
        /\ op = None /\ child = "none" /\ CURRENT_CHILD = None

\* a dry run marked a device done although a stop signal landed during it
C10_Witness ==
    /\ opts.dry_run
    /\ STOP_REQUESTED
    /\ sigDev # None
    /\ sigDev \in WithStatus("done")
    /\ pc = "exited"

\* the device of the work queue with the given name has a static address
HasAddress(n) ==
    \E i \in 1..Len(filtered_devices) :
        filtered_devices[i].name = n /\ filtered_devices[i].address # None

Completed == pc = "exited" /\ endKind = "completed"

\* C11 as stated: at the end of an uninterrupted dry run every device of the
\* work queue is in the persisted done set, whatever the probe reported and
\* whatever skip_offline is.
C11_DryRunAllDone ==
    Completed /\ opts.dry_run => QueueNames \subseteq ToSet(progressFile.done)

\* C11 as amended: at the end of an uninterrupted dry run every device of the
\* work queue is in the persisted done set, except a device with a static
\* address whose probe failed while skip_offline is enabled: that device is
\* in the persisted skipped set and not in done.
C11_DryRunDoneUnlessOffline ==
    Completed /\ opts.dry_run =>
        \A n \in QueueNames :
            /\ n \notin offline => n \in ToSet(progressFile.done)
            /\ n \in offline =>
                  /\ opts.skip_offline /\ HasAddress(n)
                  /\ n \in ToSet(progressFile.skipped)
                  /\ n \notin ToSet(progressFile.done)

\* a dry run with skip_offline ended with both devices of its queue done
C11_Witness ==
    /\ Completed
    /\ opts.dry_run /\ opts.skip_offline
    /\ Len(filtered_devices) = 2
    /\ offline = {}
    /\ QueueNames \subseteq ToSet(progressFile.done)

\* C12: a device whose probe failed (static address, skip_offline enabled)
\* is recorded in skipped, in the file as soon as its save is over, and no
\* compile or upload is attempted for it in the run.
C12_OfflineSkippedNotBuilt ==
    \A n \in offline :
        /\ opts.skip_offline /\ HasAddress(n)
        /\ n \notin compiled \cup uploaded
        /\ n \in DOMAIN outcomes /\ outcomes[n] = "skipped"
        /\ (pc = "classify" /\ n = CurDev.name) \/ n \in skipped
        /\ (pc # "save_write" /\ ~(pc \in {"classify", "save"} /\ n = CurDev.name))
               => n \in ToSet(progressFile.skipped)

\* a real run skipped an offline device and compiled another one
C12_Witness ==
    /\ pc = "exited"
    /\ ~opts.dry_run
    /\ compiled # {}
    /\ \E n \in offline : n \in ToSet(progressFile.skipped)

NamesOf(s) == { s[i].name : i \in 1..Len(s) }

\* the names the run has acted on
Processed == DOMAIN outcomes \cup compiled \cup uploaded \cup offline

\* C13: with max_devices_per_run = N > 0 and a filtered queue longer than N
\* the run processes exactly the first N devices of the queue, in scan order,
\* and a device cut off by the cap gets no outcome and is added to none of
\* done, failed, skipped; with N = 0 (or a queue of at most N devices) the
\* queue is not truncated.
C13_CapKeepsFirstN ==
    fin.recorded =>
        LET N == fin.max_devices
            U == fin.uncapped
        IN  IF N > 0 /\ Len(U) > N
            THEN /\ filtered_devices = SubSeq(U, 1, N)
                 /\ Processed \subseteq NamesOf(SubSeq(U, 1, N))
                 /\ Completed => DOMAIN outcomes = NamesOf(SubSeq(U, 1, N))
                 /\ \A n \in NamesOf(SubSeq(U, N + 1, Len(U))) :
                       /\ n \notin Processed
                       /\ pc \in LoopPcs =>
                              /\ n \in done <=> n \in ToSet(prior.done)
                              /\ n \in failed <=> n \in ToSet(prior.failed)
                              /\ n \in skipped <=> n \in ToSet(prior.skipped)
                       /\ progressFile.kind = "dict" =>
                              /\ n \in ToSet(progressFile.done)
                                     <=> n \in ToSet(prior.done)
                              /\ n \in ToSet(progressFile.failed)
                                     <=> n \in ToSet(prior.failed)
                              /\ n \in ToSet(progressFile.skipped)
                                     <=> n \in ToSet(prior.skipped)
            ELSE filtered_devices = U

\* a real run capped at one device ended having processed only the first of
\* the three devices that needed an update
C13_Witness ==
    /\ Completed
    /\ ~opts.dry_run
    /\ fin.recorded
    /\ fin.max_devices = 1
    /\ Len(fin.uncapped) = 3
    /\ DOMAIN outcomes = {fin.uncapped[1].name}
    /\ compiled = {fin.uncapped[1].name}

\* the names of a device list, in its order
NameSeq(s) == [i \in 1..Len(s) |-> s[i].name]

\* r holds elements of s, each at most once and in the order they have in s
InOrderOf(r, s) ==
    \E f \in [1..Len(r) -> 1..Len(s)] :
        /\ \A i \in 1..Len(r) : r[i] = s[f[i]]
        /\ \A i, j \in 1..Len(r) : i < j => f[i] < f[j]

\* C14: with start_from_device = s, if s occurs in the allow-list-restricted
\* list the list becomes its suffix that begins at the first occurrence of
\* s, s included; if s does not occur the list is unchanged, the warning is
\* logged and the run does not fail.
C14_StartFromSuffix ==
    fin.recorded =>
        LET L == fin.after_whitelist
            R == fin.after_start_from
            s == fin.start_from
        IN  /\ endKind # "fault"
            /\ IF s # "" /\ s \in NamesOf(L)
               THEN /\ ~fin.warned
                    /\ \E k \in 1..Len(L) :
                          /\ L[k].name = s
                          /\ \A j \in 1..(k - 1) : L[j].name # s
                          /\ R = SubSeq(L, k, Len(L))
               ELSE /\ R = L
                    /\ fin.warned <=> s # ""

\* the list a, b, c, d with start offset c became c, d
C14_Witness ==
    /\ fin.recorded
    /\ fin.start_from = "c"
    /\ NameSeq(fin.after_whitelist) = << "a", "b", "c", "d" >>
    /\ NameSeq(fin.after_start_from) = << "c", "d" >>

\* C15: with a non-empty allow-list the list after step 1 is exactly the
\* discovered devices whose name is in the allow-list, in the order of the
\* scan; allow-list names that match no device add nothing.
C15_AllowListKeepsScanOrder ==
    fin.recorded /\ fin.whitelist # << >> =>
        /\ NamesOf(fin.after_whitelist) = NamesOf(devices) \cap ToSet(fin.whitelist)
        /\ InOrderOf(fin.after_whitelist, devices)

\* the allow-list c, a applied to a, b, c, d gave a, c
C15_Witness ==
    /\ fin.recorded
    /\ fin.whitelist = << "c", "a" >>
    /\ NameSeq(devices) = << "a", "b", "c", "d" >>
    /\ NameSeq(fin.after_whitelist) = << "a", "c" >>

\* the (deployed, current) pair the dashboard of the filter holds for n
PairOf(n) ==
    IF fin.dashboard.kind = "dict" /\ n \in DOMAIN fin.dashboard.entries
    THEN fin.dashboard.entries[n]
    ELSE << None, None >>

\* C16: for a device not in done, needs_update says "needs update" exactly
\* when deployed differs from current or one of them is undefined, and such
\* a device is in the filtered queue; when both are defined and equal the
\* device is left out with a reason that contains the shared version.
C16_StaleIffDifferentOrUnknown ==
    fin.recorded =>
        \A n \in NamesOf(fin.after_start_from) \ ToSet(prior.done) :
            LET v == PairOf(n)
                stale == v[1] = None \/ v[2] = None \/ v[1] # v[2]
            IN  /\ needs_update(n, prior, fin.dashboard)[1] <=> stale
                /\ stale <=> n \in NamesOf(fin.uncapped)
                /\ ~stale =>
                      /\ n \notin QueueNames
                      /\ n \in DOMAIN skip_reasons
                      /\ v[1] \in ToSet(skip_reasons[n])

\* a is at 1.2.0 on both sides and left out with that version in the reason,
\* c is behind and queued
C16_Witness ==
    /\ fin.recorded
    /\ PairOf("a") = << "1.2.0", "1.2.0" >>
    /\ "a" \in DOMAIN skip_reasons
    /\ skip_reasons["a"] = << "already up-to-date (", "1.2.0", ")" >>
    /\ PairOf("c") = << "1.2.0", "1.3.0" >>
    /\ "c" \in QueueNames

\* exactly one of the three lists of p holds n
InExactlyOne(n, p) ==
    Cardinality({ k \in {"done", "failed", "skipped"} : n \in ToSet(p[k]) }) = 1

\* C17 as stated, its safety part: a run that was not asked to stop ends
\* with every device of the work queue processed and in exactly one of the
\* persisted sets done, failed, skipped.
C17_EachDeviceInExactlyOneSet ==
    Completed /\ ~STOP_REQUESTED =>
        \A n \in QueueNames :
            /\ n \in DOMAIN outcomes
            /\ InExactlyOne(n, progressFile)

\* C17, the part about continuing: a run that was not asked to stop ends
\* with every device of the work queue processed and in the persisted set of
\* its outcome, whatever faults the devices before it had.
C17_EachDeviceInItsOutcomeSet ==
    Completed /\ ~STOP_REQUESTED =>
        \A n \in QueueNames :
            /\ n \in DOMAIN outcomes
            /\ n \in ToSet(progressFile[outcomes[n]])

\* C17, the part about termination: a started run reaches its end
C17_RunEnds == (pc = "housekeeping") ~> (pc = "exited")

\* C18: a malformed persisted resource (here: a progress file that does not
\* parse, or that parses to a JSON list) never aborts the run with an
\* internal fault.
C18_MalformedNeverAborts ==
    pc = "exited" /\ progress.kind # "dict" => endKind # "fault"

\* C20: whenever the stop flag is set no child operation started by _run is
\* running without having been sent the termination signal.
C20_NoChildRunsUnsignalled ==
    ~(STOP_REQUESTED /\ child = "running")

\* the progress record a finished run leaves: the file once a device was
\* saved, the record the run started its loop with before that
FinalProgress ==
    IF DOMAIN outcomes = {} THEN prior ELSE load_progress(progressFile)

Earlier == { filtered_devices[i].name : i \in 1..(idx - 1) }

\* C21: devices are processed one after another in queue order with at most
\* one live child: a child is started only when none is live, the handle
\* refers to a child only while _run waits for it and is cleared whenever
\* _run is left, and a device is worked on only after the outcome of every
\* device before it is in the progress file.
C21_OneChildSequential ==
    /\ CURRENT_CHILD # None => pc = "run_wait" /\ child \in {"running", "killed"}
    /\ pc \in {"run_enter", "run_ret"} => CURRENT_CHILD = None /\ child = "none"
    /\ pc \notin RunPcs => CURRENT_CHILD = None /\ child = "none"
    /\ idx >= 1 => Processed \subseteq Earlier \cup {CurDev.name}
    /\ InUpdate =>
          \A n \in Earlier :
              /\ n \in DOMAIN outcomes
              /\ progressFile.kind = "dict"
              /\ n \in ToSet(progressFile[outcomes[n]])

\* the upload of the second device runs after the first one was saved failed
C21_Witness ==
    /\ pc = "run_wait"
    /\ idx = 2
    /\ op = "upload"
    /\ child = "running"
    /\ CURRENT_CHILD # None
    /\ filtered_devices[1].name \in ToSet(progressFile.failed)

\* C22: a device without a static address is never probed and never skipped
\* as offline: the step of update_device at the probe goes on to the dry-run / compile step with the
\* target <node>.local; ping_host is called only with skip_offline enabled
\* and for a device that has a static address.
C22_AddresslessNeverProbed ==
    [][ /\ \A n \in probed' :
              /\ opts'.skip_offline
              /\ \E i \in 1..Len(filtered_devices') :
                    /\ filtered_devices'[i].name = n
                    /\ filtered_devices'[i].address # None
        /\ offline' \subseteq probed'
        /\ (pc = "upd_ping" /\ pc' # pc /\ CurDev.address = None) =>
              /\ pc' = "upd_dry"
              /\ target' = [host |-> CurDev.node, suffix |-> ".local"]
              /\ probed' = probed /\ offline' = offline
        /\ (pc = "upd_ping" /\ probed' # probed) =>
              /\ opts.skip_offline /\ CurDev.address # None
              /\ target' = [host |-> CurDev.address, suffix |-> ""] ]_vars

\* with skip_offline enabled the device with an address was probed and the
\* one without is being compiled for node-b.local without a probe
C22_Witness ==
    /\ opts.skip_offline /\ ~opts.dry_run
    /\ pc = "run_wait" /\ op = "compile"
    /\ CurDev.name = "b" /\ CurDev.address = None
    /\ target = [host |-> "node-b", suffix |-> ".local"]
    /\ "a" \in probed /\ "b" \notin probed

\* C23: ping_host fails open: when the ping utility is missing it returns
\* reachable and the device is not skipped as offline, and it returns
\* unreachable only after both invocation variants were run and neither
\* exited with status zero.
C23_PingFailsOpen ==
    ping.recorded =>
        /\ ping.tried[1] = "FileNotFoundError" =>
              /\ ping.result
              /\ pc \in {"upd_dry", "classify"} => CurDev.name \notin offline
              /\ pc = "upd_dry" => CurDev.name \notin DOMAIN outcomes
        /\ ~ping.result =>
              /\ Len(ping.tried) = 2
              /\ \A i \in 1..2 : ping.tried[i] # "rc0"
        /\ (pc = "classify" /\ CurDev.name \in offline) => ~ping.result

\* the utility was missing and the device is going on to the compile step
C23_Witness ==
    /\ ping.recorded
    /\ ping.tried = << "FileNotFoundError" >>
    /\ ping.result
    /\ pc = "upd_dry"
    /\ CurDev.name \in probed \ offline

\* C24: the upload is classified a success exactly when the upload command
\* exited 0 or its captured output contains "OTA successful" or
\* "Successfully uploaded program"; a run that is not a dry run starts an
\* upload only with the artifact of the compile in hand and adds a device to
\* done only after the compile of that device produced an artifact and its
\* upload was classified a success.
C24_UploadSuccessAndDone ==
    [][ /\ (pc = "run_ret" /\ op = "upload" /\ pc' = "classify") =>
              /\ status' \in {"done", "failed"}
              /\ status' = "done" <=>
                    \/ rc = 0
                    \/ Contains(out, "OTA successful")
                    \/ Contains(out, "Successfully uploaded program")
        /\ uploaded' # uploaded /\ uploaded' # {} =>
              /\ pc = "upd_802" /\ bin_path # None
              /\ uploaded' = uploaded \cup {CurDev.name}
              /\ CurDev.name \in compiled
        /\ (pc = "classify" /\ ~opts.dry_run /\ done' # done) =>
              /\ done' = done \cup {CurDev.name}
              /\ status = "done"
              /\ bin_path # None
              /\ CurDev.name \in compiled \cap uploaded ]_vars

\* a real run is about to add to done a device whose compile left an
\* artifact and whose upload was classified a success
C24_Witness ==
    /\ ~opts.dry_run
    /\ pc = "classify" /\ status = "done"
    /\ bin_path # None
    /\ CurDev.name \in (compiled \cap uploaded) \ done

\* C25: resume makes progress under a cap: with max_devices_per_run = N
\* above 0 in every run and no progress clearing, when runs keep reaching
\* the update loop, the stale device c that comes last in scan order is
\* eventually attempted in some run, whatever happens to the devices
\* before it.
C25_StaleEventuallyAttempted ==
    \A N \in ResumeCaps :
        ( /\ [](fin.recorded => fin.max_devices = N)
          /\ []<>(pc = "classify") )
        => <>("c" \in Processed)

\* C26: only membership in done excludes a device on grounds of earlier
\* progress: a stale device that passed the allow-list and the start offset
\* is in the queue before the cap exactly when it is not in done, so one
\* recorded in failed or skipped is queued again; the work queue is that
\* queue cut by the cap.
C26_OnlyDoneExcludes ==
    fin.recorded =>
        /\ \A n \in NamesOf(fin.after_start_from) :
              needs_update(n, progress, fin.dashboard)[1] =>
                  /\ n \in NamesOf(fin.uncapped) <=> n \notin ToSet(progress.done)
                  /\ n \in (ToSet(progress.failed) \cup ToSet(progress.skipped))
                                \ ToSet(progress.done)
                       => n \in NamesOf(fin.uncapped)
        /\ filtered_devices = ApplyCap(fin.uncapped, fin.max_devices)

\* b failed in an earlier run and is queued again, d in done is left out
C26_Witness ==
    /\ fin.recorded
    /\ "b" \in ToSet(progress.failed) \ ToSet(progress.done)
    /\ "d" \in ToSet(progress.done)
    /\ "d" \in NamesOf(fin.after_start_from)
    /\ "b" \in NamesOf(filtered_devices)
    /\ "d" \notin NamesOf(fin.uncapped)

\* C27: the persisted done set only grows: no step takes a name out of the
\* saved done list or the saved skipped list except the housekeeping step
\* that clears the progress and leaves the empty record; within a
\* run the sets done and skipped of the loop never lose a name; and the
\* queue a run builds holds no name of the saved done list, whatever the
\* dashboard says about versions.
C27_DoneOnlyGrows ==
    [][ /\ \/ /\ ToSet(lastSaved.done) \subseteq ToSet(lastSaved'.done)
              /\ ToSet(lastSaved.skipped) \subseteq ToSet(lastSaved'.skipped)
           \/ /\ pc = "housekeeping"
              /\ progress' = EmptyProgress
              /\ progressFile' = EmptyProgress
              /\ lastSaved' = EmptyProgress
        /\ pc \in LoopPcs => done \subseteq done' /\ skipped \subseteq skipped'
        /\ pc = "classify" =>
              /\ ToSet(lastSaved.done) \subseteq done'
              /\ ToSet(lastSaved.skipped) \subseteq skipped'
        /\ (pc = "filter" /\ pc' = "loop_top") =>
              /\ QueueNames' \cap ToSet(lastSaved.done) = {}
              /\ ToSet(lastSaved.done) \subseteq done' ]_vars

\* a later run: a is in done from an earlier run and was left out of the
\* queue, b was skipped by an earlier run and has now been saved as done
\* without leaving skipped
C27_Witness ==
    /\ pc = "delay"
    /\ DOMAIN outcomes = {"b"} /\ outcomes["b"] = "done"
    /\ QueueNames = {"b"}
    /\ "a" \in ToSet(prior.done)
    /\ "b" \in ToSet(prior.skipped)
    /\ ToSet(lastSaved.done) = {"a", "b"}
    /\ "b" \in ToSet(lastSaved.skipped)

====
